---- MODULE Spec2Model ----
(***************************************************************************)
(* The puzzle validation engine of logic_validator.py (validate_puzzle),    *)
(* the puzzle creator and the site generator that run around it, and the   *)
(* logic grid of a generated puzzle page.                                  *)
(* A Python string is a sequence of one-character strings, so that the     *)
(* substring test `label in text` and the variable name f'x_{a}_{v}_{t}'   *)
(* are computed as the code computes them.  The z3 solver is a             *)
(* nondeterministic choice among the satisfying assignments of the         *)
(* asserted constraints.                                                   *)
(***************************************************************************)
EXTENDS Integers, Sequences, FiniteSets, TLC

\* the state of validate_puzzle, then the puzzles directory, the value returned
\* by validate_and_save, the generated pages and the cells of a puzzle page
VARIABLES puzzle, pc, i, trip_vars, s, model, result, log, files, returned, site, cells

vars == <<puzzle, pc, i, trip_vars, s, model, result, log, files, returned, site, cells>>

(* ---------------------------- bounds ----------------------------------- *)

\* longest list of freely chosen clues appended to a base clue list
MaxClues == 1

\* catalogs with at most FullSolve triple variables are solved over every
\* assignment; larger ones over assignments with at most MaxTrue true variables
FullSolve == 8

MaxTrue == 2

(* ---------------------------- labels ----------------------------------- *)

A == <<"A">>
B == <<"B">>
C == <<"C">>
X == <<"X">>
Y == <<"Y">>
Z == <<"Z">>
S1 == <<"S", "1">>
S2 == <<"S", "2">>
S3 == <<"S", "3">>
D1 == <<"D", "1">>
D2 == <<"D", "2">>
D3 == <<"D", "3">>

\* Python None (and the empty string, equally falsy in `if actor and vector`)
None == << >>

(* ---------------------------- clue texts ------------------------------- *)

ClueTypes == {"negation", "affirmative", "relational", "conditional", "data-inference"}

Clue(text, type) == [text |-> text, type |-> type]

NegationClue(a, v) == Clue(a \o <<" ", "d", "i", "d", " ", "n", "o", "t", " ", "u", "s", "e", " ">> \o v \o <<".">>, "negation")

AffirmativeClue(v, t) == Clue(<<"T", "h", "e", " ", "v", "e", "c", "t", "o", "r", " ">> \o v \o <<" ", "w", "a", "s", " ", "u", "s", "e", "d", " ", "a", "g", "a", "i", "n", "s", "t", " ">> \o t \o <<".">>, "affirmative")

RelationalClue(v, t) == Clue(<<"T", "h", "e", " ", "a", "c", "t", "o", "r", " ", "t", "h", "a", "t", " ", "u", "s", "e", "d", " ">> \o v \o <<" ", "d", "i", "d", " ", "n", "o", "t", " ", "a", "c", "c", "e", "s", "s", " ", "t", "h", "e", " ">> \o t \o <<".">>, "relational")

ConditionalClue(a, v, t) == Clue(<<"I", "f", " ">> \o a \o <<" ", "u", "s", "e", "d", " ">> \o v \o <<",", " ", "t", "h", "e", "n", " ", "t", "h", "e", "y", " ", "a", "c", "c", "e", "s", "s", "e", "d", " ", "t", "h", "e", " ">> \o t \o <<".">>, "conditional")

DataInferenceClue(v, d) == Clue(<<"O", "n", "l", "y", " ", "a", "t", "t", "a", "c", "k", "s", " ", "u", "s", "i", "n", "g", " ">> \o v \o <<" ", "r", "e", "s", "u", "l", "t", "e", "d", " ", "i", "n", " ", "t", "h", "e", "f", "t", " ", "o", "f", " ">> \o d \o <<".">>, "data-inference")

(* ---------------------------- pure helpers ----------------------------- *)

\* Python `label in text`
Contains(text, label) ==
    \E k \in 1..(Len(text) - Len(label) + 1) : \A j \in 1..Len(label) : text[k + j - 1] = label[j]

\* faulty variant: no break, the last matching item wins
Resolve_Last(catalog, text) ==
    LET hits == {k \in 1..Len(catalog) : Contains(text, catalog[k])}
    IN  IF hits = {} THEN None
        ELSE catalog[CHOOSE k \in hits : \A j \in hits : k >= j]

\* for x in catalog: if x in text: found = x; break   (None when nothing matches)
Resolve(catalog, text) ==
    LET hits == {k \in 1..Len(catalog) : Contains(text, catalog[k])}
    IN  IF hits = {} THEN None
        ELSE catalog[CHOOSE k \in hits : \A j \in hits : k <= j]

\* f'x_{a}_{v}_{t}'
VarName(a, v, t) == <<"x", "_">> \o a \o <<"_">> \o v \o <<"_">> \o t

\* the dictionary trip_vars in insertion order: one entry per (a, v, t)
TripVars(actors, vectors, assets) ==
    LET nv == Len(vectors)
        nt == Len(assets)
        n  == Len(actors) * nv * nt
    IN  [k \in 1..n |->
            LET a == actors[((k - 1) \div (nv * nt)) + 1]
                v == vectors[(((k - 1) \div nt) % nv) + 1]
                t == assets[((k - 1) % nt) + 1]
            IN  [key |-> <<a, v, t>>, var |-> VarName(a, v, t)]]

Keys(tv) == {tv[k].key : k \in 1..Len(tv)}

\* trip_vars[(a, v, t)]
Var(tv, key) == tv[CHOOSE k \in 1..Len(tv) : tv[k].key = key].var

\* trip_vars.values(), in dictionary order
Values(tv) == [k \in 1..Len(tv) |-> tv[k].var]

(* ---------------------------- z3 expressions --------------------------- *)

Or(args) == [op |-> "Or", args |-> args]

Not(x) == [op |-> "Not", args |-> <<x>>]

NotAnd(x, y) == [op |-> "NotAnd", args |-> <<x, y>>]

Implies(x, y) == [op |-> "Implies", args |-> <<x, y>>]

ImpliesNot(x, y) == [op |-> "ImpliesNot", args |-> <<x, y>>]

\* the value of constraint c under the assignment whose true variables are m
Holds(m, c) ==
    CASE c.op = "Or"         -> \E k \in 1..Len(c.args) : c.args[k] \in m
      [] c.op = "Not"        -> c.args[1] \notin m
      [] c.op = "NotAnd"     -> ~(c.args[1] \in m /\ c.args[2] \in m)
      [] c.op = "Implies"    -> (c.args[1] \in m) => (c.args[2] \in m)
      [] c.op = "ImpliesNot" -> (c.args[1] \in m) => (c.args[2] \notin m)

(* ---------------------------- constraint model ------------------------- *)

\* faulty variant: the first assertion is a tautology
AtLeastOne_Tautology(tv) ==
    IF tv = << >> THEN Or(<< >>) ELSE Implies(tv[1].var, tv[1].var)

\* s.add(Or(*trip_vars.values()))
AtLeastOne(tv) == Or(Values(tv))

\* for t1, t2 in zip(values, values): if t1 is not t2: s.add(Not(And(t1, t2)))
\* zip pairs the k-th value with the k-th value; `is` compares the objects,
\* which are identified here by their position in the dictionary
PairwiseNotBoth(tv) ==
    LET zipped == [k \in 1..Len(tv) |-> <<k, k>>]
        kept   == SelectSeq(zipped, LAMBDA pr : pr[1] # pr[2])
    IN  [j \in 1..Len(kept) |-> NotAnd(tv[kept[j][1]].var, tv[kept[j][2]].var)]

(* ---------------------------- clue compiler ---------------------------- *)

\* faulty variant: only the first asset of the catalog is forbidden
NegationConstraints_FirstAsset(text, p, tv) ==
    LET actor  == Resolve(p.actors, text)
        vector == Resolve(p.vectors, text)
        ts     == SelectSeq(p.assets, LAMBDA t : <<actor, vector, t>> \in Keys(tv))
    IN  IF actor # None /\ vector # None /\ Len(ts) > 0
        THEN <<Not(Var(tv, <<actor, vector, ts[1]>>))>>
        ELSE << >>

\* faulty variant: a missing actor is read as every actor
NegationConstraints_AnyActor(text, p, tv) ==
    LET actor  == Resolve(p.actors, text)
        vector == Resolve(p.vectors, text)
        ks     == SelectSeq([k \in 1..Len(tv) |-> k],
                            LAMBDA k : tv[k].key[2] = vector /\ (actor = None \/ tv[k].key[1] = actor))
    IN  IF vector # None
        THEN [j \in 1..Len(ks) |-> Not(tv[ks[j]].var)]
        ELSE << >>

\* typ == 'negation'
NegationConstraints(text, p, tv) ==
    LET actor  == Resolve(p.actors, text)
        vector == Resolve(p.vectors, text)
        ts     == SelectSeq(p.assets, LAMBDA t : <<actor, vector, t>> \in Keys(tv))
    IN  IF actor # None /\ vector # None
        THEN [k \in 1..Len(ts) |-> Not(Var(tv, <<actor, vector, ts[k]>>))]
        ELSE << >>

\* faulty variant: the disjunction is built and never added to s
AffirmativeConstraints_Dropped(text, p, tv) == << >>

\* faulty variant: the disjunction ranges over every asset, not the resolved one
AffirmativeConstraints_AnyAsset(text, p, tv) ==
    LET vector == Resolve(p.vectors, text)
        asset  == Resolve(p.assets, text)
        ks     == SelectSeq([k \in 1..Len(tv) |-> k], LAMBDA k : tv[k].key[2] = vector)
        valid_triplets == [j \in 1..Len(ks) |-> tv[ks[j]].var]
    IN  IF vector # None /\ asset # None /\ Len(valid_triplets) > 0
        THEN <<Or(valid_triplets)>>
        ELSE << >>

\* typ == 'affirmative'
AffirmativeConstraints(text, p, tv) ==
    LET vector == Resolve(p.vectors, text)
        asset  == Resolve(p.assets, text)
        as     == SelectSeq(p.actors, LAMBDA a : <<a, vector, asset>> \in Keys(tv))
        valid_triplets == [k \in 1..Len(as) |-> Var(tv, <<as[k], vector, asset>>)]
    IN  IF vector # None /\ asset # None /\ Len(valid_triplets) > 0
        THEN <<Or(valid_triplets)>>
        ELSE << >>

\* faulty variant: only the first actor of the catalog is forbidden
RelationalConstraints_FirstActor(text, p, tv) ==
    LET vector == Resolve(p.vectors, text)
        asset  == Resolve(p.assets, text)
        as     == SelectSeq(p.actors, LAMBDA a : <<a, vector, asset>> \in Keys(tv))
    IN  IF vector # None /\ asset # None /\ Len(as) > 0
        THEN <<Not(Var(tv, <<as[1], vector, asset>>))>>
        ELSE << >>

\* typ == 'relational'
RelationalConstraints(text, p, tv) ==
    LET vector == Resolve(p.vectors, text)
        asset  == Resolve(p.assets, text)
        as     == SelectSeq(p.actors, LAMBDA a : <<a, vector, asset>> \in Keys(tv))
    IN  IF vector # None /\ asset # None
        THEN [k \in 1..Len(as) |-> Not(Var(tv, <<as[k], vector, asset>>))]
        ELSE << >>

\* faulty variant: only the first loop, (a, v, t) => (a, v, asset)
ConditionalConstraints_OneWay(text, p, tv) ==
    LET actor  == Resolve(p.actors, text)
        vector == Resolve(p.vectors, text)
        asset  == Resolve(p.assets, text)
        ts     == SelectSeq(p.assets, LAMBDA t : t # asset /\ <<actor, vector, t>> \in Keys(tv))
        x      == Var(tv, <<actor, vector, asset>>)
    IN  IF actor # None /\ vector # None /\ asset # None
        THEN [k \in 1..Len(ts) |-> Implies(Var(tv, <<actor, vector, ts[k]>>), x)]
        ELSE << >>

\* typ == 'conditional'
ConditionalConstraints(text, p, tv) ==
    LET actor  == Resolve(p.actors, text)
        vector == Resolve(p.vectors, text)
        asset  == Resolve(p.assets, text)
        ts     == SelectSeq(p.assets, LAMBDA t : t # asset /\ <<actor, vector, t>> \in Keys(tv))
        x      == Var(tv, <<actor, vector, asset>>)
    IN  IF actor # None /\ vector # None /\ asset # None
        THEN [k \in 1..Len(ts) |-> Implies(Var(tv, <<actor, vector, ts[k]>>), x)]
             \o [k \in 1..Len(ts) |-> ImpliesNot(x, Var(tv, <<actor, vector, ts[k]>>))]
        ELSE << >>

\* faulty variant: the resolved vector is required of the true triple
DataInferenceConstraints_BindsVector(text, p, tv) ==
    LET vector == Resolve(p.vectors, text)
        ks     == SelectSeq([k \in 1..Len(tv) |-> k], LAMBDA k : tv[k].key[2] = vector)
    IN  IF vector # None /\ Len(ks) > 0
        THEN <<Or([j \in 1..Len(ks) |-> tv[ks[j]].var])>>
        ELSE << >>

\* typ == 'data-inference': vector and data_type are resolved and dropped
DataInferenceConstraints(text, p, tv) == << >>

(* ---------------------------- solver ----------------------------------- *)

RECURSIVE SubsetsUpTo(_, _)
SubsetsUpTo(S, n) ==
    IF n = 0 THEN {{}}
    ELSE LET P == SubsetsUpTo(S, n - 1) IN P \cup {q \cup {x} : q \in P, x \in S}

\* the assignments the solver is taken to choose among (sets of true variables)
Assignments(tv) ==
    LET names == {tv[k].var : k \in 1..Len(tv)}
    IN  IF Cardinality(names) <= FullSolve THEN SUBSET names ELSE SubsetsUpTo(names, MaxTrue)

\* the assignments s.model() may return: those satisfying every assertion of s
Models(tv, cs) == {m \in Assignments(tv) : \A k \in 1..Len(cs) : Holds(m, cs[k])}

(* ---------------------------- verdict classifier ----------------------- *)

NoResult == [status |-> "none"]

\* A text is a sequence of parts: a literal is the part <<"...">>, an
\* interpolated label is the label itself, an interpolated number n is <<n>>.
Text(literal) == <<<<literal>>>>

\* f"{a} used {v} against {t}"
Used(trip) == <<trip[1], <<" used ">>, trip[2], <<" against ">>, trip[3]>>

\* lines 170-180
Unsatisfiable ==
    [status |-> "invalid",
     reason |-> "unsatisfiable (no solutions)",
     explanation |-> Text("The clues create a logical contradiction. No combination of actor, vector, and asset can satisfy all the given constraints. This usually means the clues are too restrictive or contain conflicting information."),
     suggestions |-> <<Text("Review your clues for logical contradictions"),
                       Text("Ensure clues don't eliminate all possible solutions"),
                       Text("Check that negation clues don't conflict with affirmative clues"),
                       Text("Verify that conditional clues are logically consistent")>>]

\* lines 192-203
AmbiguousVerdict(true_triples) ==
    [status |-> "ambiguous",
     solutions |-> true_triples,
     explanation |-> <<<<"The clues allow ">>, <<Len(true_triples)>>,
                       <<" different valid solutions. A good puzzle should have exactly one solution.">>>>,
     found_solutions |-> [k \in 1..Len(true_triples) |-> Used(true_triples[k])],
     suggestions |-> <<Text("Add more clues to eliminate alternative solutions"),
                       Text("Use negation clues to rule out specific actor-vector combinations"),
                       Text("Add relational clues to restrict which assets can be accessed"),
                       Text("Consider using conditional clues to create stronger constraints")>>]

\* lines 206-215
NoSolutionVerdict ==
    [status |-> "invalid",
     reason |-> "no solution found",
     explanation |-> Text("The solver found no valid solution, but the system is satisfiable. This indicates a logic error in the validation process."),
     suggestions |-> <<Text("Check the puzzle data for consistency"),
                       Text("Verify that all actors, vectors, and assets are properly defined"),
                       Text("Review clue parsing logic for errors")>>]

\* lines 224-240
MismatchVerdict(true_trip, sol) ==
    [status |-> "mismatch",
     found |-> true_trip,
     expected |-> sol,
     explanation |-> <<<<"The logical solution (">>>> \o Used(true_trip)
                       \o <<<<") doesn't match your declared solution (">>>> \o Used(sol)
                       \o <<<<").">>>>,
     analysis |-> [logical_solution |-> Used(true_trip),
                   declared_solution |-> Used(sol),
                   issue |-> Text("The clues logically lead to a different solution than what you specified.")],
     suggestions |-> <<<<<<"Either change your declared solution to: ">>>> \o Used(true_trip),
                       Text("Or modify your clues to eliminate the logical solution and support your intended solution"),
                       Text("Add negation clues to rule out the logical solution"),
                       Text("Use affirmative clues to support your intended solution")>>]

\* lines 246-254
DataNotInferableVerdict(ds) ==
    [status |-> "data-not-inferable",
     explanation |-> <<<<"The stolen data '">>, ds,
                       <<"' is not mentioned in any clues, making it impossible for solvers to determine what was stolen.">>>>,
     suggestions |-> <<<<<<"Add a clue that mentions '">>, ds, <<"'">>>>,
                       Text("Use a data inference clue to link the attack vector to the stolen data"),
                       Text("Include the stolen data in an affirmative or conditional clue")>>]

\* lines 256-266
ValidVerdict(p, tv, sol, ds) ==
    [status |-> "valid",
     solution |-> [actor |-> sol[1], vector |-> sol[2], asset |-> sol[3], stolen_data |-> ds],
     explanation |-> Text("The puzzle is logically consistent and has exactly one solution that matches your declared solution."),
     validation_summary |-> [total_possibilities |-> Len(tv),
                             clues_processed |-> Len(p.clues),
                             solution_unique |-> TRUE,
                             data_inferable |-> TRUE]]

\* [trip for trip, var in trip_vars.items() if model.evaluate(var)]
TrueTriples(tv, m) ==
    LET hit == SelectSeq([k \in 1..Len(tv) |-> k], LAMBDA k : tv[k].var \in m)
    IN  [j \in 1..Len(hit) |-> tv[hit[j]].key]

\* faulty variant: only the data-inference clues are searched for the label
Related_DataInferenceOnly(p) ==
    \E k \in 1..Len(p.clues) :
        p.clues[k].type = "data-inference" /\ Contains(p.clues[k].text, p.solution.stolen_data)

\* any(ds in clue['text'] for clue in puzzle['clues'])
Related(p) == \E k \in 1..Len(p.clues) : Contains(p.clues[k].text, p.solution.stolen_data)

\* faulty variant: the stolen-data text check comes before the comparison with the declared triple
Classify_DataFirst(p, tv, m) ==
    LET true_triples == TrueTriples(tv, m)
        sol == <<p.solution.actor, p.solution.vector, p.solution.asset>>
        ds  == p.solution.stolen_data
    IN  IF Len(true_triples) > 1
        THEN AmbiguousVerdict(true_triples)
        ELSE IF Len(true_triples) = 0
        THEN NoSolutionVerdict
        ELSE IF ~Related(p)
        THEN DataNotInferableVerdict(ds)
        ELSE IF true_triples[1] # sol
        THEN MismatchVerdict(true_triples[1], sol)
        ELSE ValidVerdict(p, tv, sol, ds)

\* faulty variant: the summary counts the actors, not the triples
Classify_ActorCount(p, tv, m) ==
    LET true_triples == TrueTriples(tv, m)
        sol == <<p.solution.actor, p.solution.vector, p.solution.asset>>
        ds  == p.solution.stolen_data
    IN  IF Len(true_triples) > 1
        THEN AmbiguousVerdict(true_triples)
        ELSE IF Len(true_triples) = 0
        THEN NoSolutionVerdict
        ELSE IF true_triples[1] # sol
        THEN MismatchVerdict(true_triples[1], sol)
        ELSE IF ~Related(p)
        THEN DataNotInferableVerdict(ds)
        ELSE [ValidVerdict(p, tv, sol, ds) EXCEPT !.validation_summary.total_possibilities = Len(p.actors)]

\* faulty variant: the data-not-inferable verdict comes without suggestions
Classify_NoSuggestions(p, tv, m) ==
    LET true_triples == TrueTriples(tv, m)
        sol == <<p.solution.actor, p.solution.vector, p.solution.asset>>
        ds  == p.solution.stolen_data
    IN  IF Len(true_triples) > 1
        THEN AmbiguousVerdict(true_triples)
        ELSE IF Len(true_triples) = 0
        THEN NoSolutionVerdict
        ELSE IF true_triples[1] # sol
        THEN MismatchVerdict(true_triples[1], sol)
        ELSE IF ~Related(p)
        THEN [status |-> "data-not-inferable",
              explanation |-> DataNotInferableVerdict(ds).explanation,
              suggestions |-> << >>]
        ELSE ValidVerdict(p, tv, sol, ds)

\* faulty variant: the mismatch verdict swaps found and expected
Classify_SwappedMismatch(p, tv, m) ==
    LET true_triples == TrueTriples(tv, m)
        sol == <<p.solution.actor, p.solution.vector, p.solution.asset>>
        ds  == p.solution.stolen_data
    IN  IF Len(true_triples) > 1
        THEN AmbiguousVerdict(true_triples)
        ELSE IF Len(true_triples) = 0
        THEN NoSolutionVerdict
        ELSE IF true_triples[1] # sol
        THEN MismatchVerdict(sol, true_triples[1])
        ELSE IF ~Related(p)
        THEN DataNotInferableVerdict(ds)
        ELSE ValidVerdict(p, tv, sol, ds)

\* the return statements after s.model()
Classify(p, tv, m) ==
    LET true_triples == TrueTriples(tv, m)
        sol == <<p.solution.actor, p.solution.vector, p.solution.asset>>
        ds  == p.solution.stolen_data
    IN  IF Len(true_triples) > 1
        THEN AmbiguousVerdict(true_triples)
        ELSE IF Len(true_triples) = 0
        THEN NoSolutionVerdict
        ELSE IF true_triples[1] # sol
        THEN MismatchVerdict(true_triples[1], sol)
        ELSE IF ~Related(p)
        THEN DataNotInferableVerdict(ds)
        ELSE ValidVerdict(p, tv, sol, ds)

(* ---------------------------- puzzles ---------------------------------- *)

Puzzle(actors, vectors, assets, stolen_data, solution, clues) ==
    [actors |-> actors, vectors |-> vectors, assets |-> assets,
     stolen_data |-> stolen_data, solution |-> solution, clues |-> clues]

Solution(a, v, t, d) == [actor |-> a, vector |-> v, asset |-> t, stolen_data |-> d]

\* tests/tests_easy.py
test_easy_valid ==
    Puzzle(<<A, B, C>>, <<X, Y, Z>>, <<S1, S2, S3>>, <<D1, D2, D3>>,
           Solution(A, X, S2, D1),
           << Clue(<<"A", " ", "u", "s", "e", "d", " ", "X", " ", "o", "n", " ", "S", "2", ".">>, "affirmative"),
              Clue(<<"B", " ", "d", "i", "d", " ", "n", "o", "t", " ", "u", "s", "e", " ", "Y", ".">>, "negation"),
              Clue(<<"T", "h", "e", " ", "v", "e", "c", "t", "o", "r", " ", "X", " ", "w", "a", "s", " ", "u", "s", "e", "d", " ", "a", "g", "a", "i", "n", "s", "t", " ", "S", "2", ".">>, "affirmative"),
              Clue(<<"O", "n", "l", "y", " ", "a", "t", "t", "a", "c", "k", "s", " ", "o", "n", " ", "S", "2", " ", "r", "e", "s", "u", "l", "t", "e", "d", " ", "i", "n", " ", "D", "1", ".">>, "data-inference") >>)

\* tests/tests_impossible.py
test_ambiguous_fails ==
    Puzzle(<<A, B, C>>, <<X, Y, Z>>, <<S1, S2, S3>>, <<D1, D2, D3>>,
           Solution(A, X, S2, D1),
           << Clue(<<"A", " ", "d", "i", "d", " ", "n", "o", "t", " ", "u", "s", "e", " ", "Y", ".">>, "negation"),
              Clue(<<"B", " ", "d", "i", "d", " ", "n", "o", "t", " ", "u", "s", "e", " ", "Z", ".">>, "negation"),
              Clue(<<"C", " ", "d", "i", "d", " ", "n", "o", "t", " ", "u", "s", "e", " ", "X", ".">>, "negation") >>)

SmallActors == <<A, B>>

SmallVectors == <<X, Y>>

SmallAssets == <<S1, S2>>

SmallData == <<D1, D2>>

Range(q) == {q[k] : k \in 1..Len(q)}

\* clue texts naming two items of one category, the later catalog item first
TwoMatchClues ==
    {Clue(<<"B", " ", "a", "n", "d", " ", "A", " ", "d", "i", "d", " ", "n", "o", "t", " ", "u", "s", "e", " ", "Y", ".">>, "negation"),
     Clue(<<"X", " ", "w", "a", "s", " ", "u", "s", "e", "d", " ", "a", "g", "a", "i", "n", "s", "t", " ", "S", "2", " ", "a", "n", "d", " ", "S", "1", ".">>, "affirmative")}

\* clue texts in which a category the archetype requires names no catalog item
UnresolvedClues ==
    {Clue(<<"N", "o", "b", "o", "d", "y", " ", "t", "o", "o", "k", " ", "D", "1", " ", "u", "s", "i", "n", "g", " ", "X", ".">>, "negation"),
     Clue(<<"X", " ", "w", "a", "s", " ", "u", "s", "e", "d", " ", "a", "g", "a", "i", "n", "s", "t", " ", "t", "h", "e", " ", "V", "a", "u", "l", "t", ".">>, "affirmative"),
     Clue(<<"T", "h", "e", " ", "a", "c", "t", "o", "r", " ", "t", "h", "a", "t", " ", "u", "s", "e", "d", " ", "P", "h", "i", "s", "h", "i", "n", "g", " ", "d", "i", "d", " ", "n", "o", "t", " ", "a", "c", "c", "e", "s", "s", " ", "t", "h", "e", " ", "S", "1", ".">>, "relational"),
     Clue(<<"I", "f", " ", "A", " ", "u", "s", "e", "d", " ", "X", ",", " ", "t", "h", "e", "n", " ", "t", "h", "e", "y", " ", "a", "c", "c", "e", "s", "s", "e", "d", " ", "t", "h", "e", " ", "V", "a", "u", "l", "t", ".">>, "conditional")}

\* the clue texts the puzzle creator writes, over the small catalogs, and the
\* free texts above
Pool ==
    {NegationClue(a, v) : a \in Range(SmallActors), v \in Range(SmallVectors)}
    \cup {AffirmativeClue(v, t) : v \in Range(SmallVectors), t \in Range(SmallAssets)}
    \cup {RelationalClue(v, t) : v \in Range(SmallVectors), t \in Range(SmallAssets)}
    \cup {ConditionalClue(a, v, t) : a \in Range(SmallActors), v \in Range(SmallVectors),
                                     t \in Range(SmallAssets)}
    \cup {DataInferenceClue(v, D1) : v \in Range(SmallVectors)}
    \cup {DataInferenceClue(X, D3)}
    \cup TwoMatchClues
    \cup UnresolvedClues

\* spec 8, scenario C: every actor is denied vector X, and X is affirmed on S2
ScenarioC == <<NegationClue(A, X), NegationClue(B, X), AffirmativeClue(X, S2)>>

\* spec 8, mismatch scenario: the clues leave (B, Y, S1) only
ScenarioMismatch ==
    <<NegationClue(A, X), NegationClue(A, Y), NegationClue(B, X), RelationalClue(Y, S2)>>

BaseClues == {<< >>, ScenarioC, ScenarioMismatch}

SeqsUpTo(S, n) == UNION {[1..k -> S] : k \in 0..n}

\* two declared solutions of the catalogs, one whose actor and one whose
\* stolen-data label is in no catalog
SmallSolutions ==
    {Solution(A, X, S2, D1), Solution(B, Y, S1, D2), Solution(C, X, S2, D1), Solution(A, X, S2, D3)}

SmallPuzzles ==
    {Puzzle(SmallActors, SmallVectors, SmallAssets, SmallData, sol, base \o extra) :
        sol \in SmallSolutions, base \in BaseClues, extra \in SeqsUpTo(Pool, MaxClues)}

\* puzzles in which one of the three catalogs is empty
EmptyCatalogPuzzles ==
    {Puzzle(cats[1], cats[2], cats[3], SmallData, Solution(A, X, S2, D1), extra) :
        cats \in {<<<< >>, SmallVectors, SmallAssets>>,
                  <<SmallActors, << >>, SmallAssets>>,
                  <<SmallActors, SmallVectors, << >> >>},
        extra \in SeqsUpTo(Pool, MaxClues)}

Puzzles == SmallPuzzles \cup EmptyCatalogPuzzles \cup {test_easy_valid, test_ambiguous_fails}

(* ---------------------------- validate_puzzle -------------------------- *)

Init ==
    /\ puzzle \in Puzzles
    /\ pc = "start"
    /\ i = 0
    /\ trip_vars = << >>
    /\ s = << >>
    /\ model = {}
    /\ result = NoResult
    /\ log = << >>
    /\ files = {}
    /\ returned = "none"
    /\ site = << >>
    /\ cells = << >>

\* lines 14-29: the variables and the exactly-one constraints
BuildModel ==
    /\ pc = "start"
    /\ LET tv == TripVars(puzzle.actors, puzzle.vectors, puzzle.assets)
       IN  /\ trip_vars' = tv
           /\ s' = <<AtLeastOne(tv)>> \o PairwiseNotBoth(tv)
    /\ i' = 1
    /\ pc' = "clues"
    /\ UNCHANGED <<puzzle, model, result, log, files, returned, site, cells>>

\* the clue of the current iteration of `for clue in puzzle['clues']`; the
\* body of the try block compares and looks up strings only, so the except
\* branch of line 164, the one place that prints, is never taken and log
\* (what validate_puzzle printed) stays empty
AtClue(typ) ==
    /\ pc = "clues"
    /\ i <= Len(puzzle.clues)
    /\ puzzle.clues[i].type = typ

CurrentText == puzzle.clues[i].text

\* lines 40-60
EncodeNegation ==
    /\ AtClue("negation")
    /\ s' = s \o NegationConstraints(CurrentText, puzzle, trip_vars)
    /\ i' = i + 1
    /\ UNCHANGED <<puzzle, pc, trip_vars, model, result, log, files, returned, site, cells>>

\* lines 62-85
EncodeAffirmative ==
    /\ AtClue("affirmative")
    /\ s' = s \o AffirmativeConstraints(CurrentText, puzzle, trip_vars)
    /\ i' = i + 1
    /\ UNCHANGED <<puzzle, pc, trip_vars, model, result, log, files, returned, site, cells>>

\* lines 87-106
EncodeRelational ==
    /\ AtClue("relational")
    /\ s' = s \o RelationalConstraints(CurrentText, puzzle, trip_vars)
    /\ i' = i + 1
    /\ UNCHANGED <<puzzle, pc, trip_vars, model, result, log, files, returned, site, cells>>

\* lines 108-143
EncodeConditional ==
    /\ AtClue("conditional")
    /\ s' = s \o ConditionalConstraints(CurrentText, puzzle, trip_vars)
    /\ i' = i + 1
    /\ UNCHANGED <<puzzle, pc, trip_vars, model, result, log, files, returned, site, cells>>

\* lines 145-162
EncodeDataInference ==
    /\ AtClue("data-inference")
    /\ s' = s \o DataInferenceConstraints(CurrentText, puzzle, trip_vars)
    /\ i' = i + 1
    /\ UNCHANGED <<puzzle, pc, trip_vars, model, result, log, files, returned, site, cells>>

\* lines 168-266: s.check(), s.model() and the verdict
Check ==
    /\ pc = "clues"
    /\ i > Len(puzzle.clues)
    /\ IF Models(trip_vars, s) = {}
       THEN /\ model' = model
            /\ result' = Unsatisfiable
       ELSE \E m \in Models(trip_vars, s) :
                /\ model' = m
                /\ result' = Classify(puzzle, trip_vars, m)
    /\ pc' = "done"
    /\ UNCHANGED <<puzzle, i, trip_vars, s, log, files, returned, site, cells>>

Next ==
    \/ BuildModel
    \/ EncodeNegation
    \/ EncodeAffirmative
    \/ EncodeRelational
    \/ EncodeConditional
    \/ EncodeDataInference
    \/ Check

Spec == Init /\ [][Next]_vars

(* ---------------------------- vocabulary of the claims ---------------- *)

Done == pc = "done"

Clues == puzzle.clues

ClueIdx == 1..Len(Clues)

Triples == Keys(trip_vars)

Declared == <<puzzle.solution.actor, puzzle.solution.vector, puzzle.solution.asset>>

\* the entities a clue text resolves to, per category
ActorOf(k) == Resolve(puzzle.actors, Clues[k].text)

VectorOf(k) == Resolve(puzzle.vectors, Clues[k].text)

AssetOf(k) == Resolve(puzzle.assets, Clues[k].text)

\* clue k is of the archetype and resolves to the given entities
IsNegation(k, a, v) ==
    Clues[k].type = "negation" /\ a # None /\ v # None /\ ActorOf(k) = a /\ VectorOf(k) = v

IsAffirmative(k, v, t) ==
    Clues[k].type = "affirmative" /\ v # None /\ t # None /\ VectorOf(k) = v /\ AssetOf(k) = t

IsRelational(k, v, t) ==
    Clues[k].type = "relational" /\ v # None /\ t # None /\ VectorOf(k) = v /\ AssetOf(k) = t

IsConditional(k, a, v, t) ==
    /\ Clues[k].type = "conditional"
    /\ a # None /\ v # None /\ t # None
    /\ ActorOf(k) = a /\ VectorOf(k) = v /\ AssetOf(k) = t

\* the constraints the clues added to s, after the exactly-one constraints
ClueConstraints == SubSeq(s, 2 + Len(PairwiseNotBoth(trip_vars)), Len(s))

\* the triples that, taken as the single true triple, satisfy every clue constraint
Survivors ==
    {u \in Triples : \A k \in 1..Len(ClueConstraints) : Holds({Var(trip_vars, u)}, ClueConstraints[k])}

N == Cardinality(Survivors)

\* the triples a verdict reports
Reported(r) ==
    CASE r.status = "ambiguous" -> Range(r.solutions)
      [] r.status = "mismatch"  -> {r.found}
      [] r.status = "valid"     -> {<<r.solution.actor, r.solution.vector, r.solution.asset>>}
      [] OTHER                  -> {}

(* ---------------------------- claims ----------------------------------- *)

\* C1: once the constraint model is built (non-empty catalogs), s holds the
\* at-least-one disjunction and a not-both-true constraint for every pair of
\* distinct triples, and every assignment satisfying s has exactly one true
\* triple variable.
C1_ExactlyOneTriple ==
    (pc # "start" /\ Len(trip_vars) > 0) =>
        /\ AtLeastOne(trip_vars) \in Range(s)
        /\ \A t1, t2 \in Triples :
               t1 # t2 => \/ NotAnd(Var(trip_vars, t1), Var(trip_vars, t2)) \in Range(s)
                          \/ NotAnd(Var(trip_vars, t2), Var(trip_vars, t1)) \in Range(s)
        /\ \A m \in Models(trip_vars, s) : Cardinality(m) = 1

\* C2: the returned status aligns with the number N of surviving triples:
\* N = 0 iff invalid/unsatisfiable, N > 1 iff ambiguous, N = 1 iff mismatch,
\* data-not-inferable or valid.
C2_StatusAlignsWithCount ==
    Done =>
        /\ (N = 0) <=> (result = Unsatisfiable)
        /\ (N > 1) <=> (result.status = "ambiguous")
        /\ (N = 1) <=> (result.status \in {"mismatch", "data-not-inferable", "valid"})

\* C3: a puzzle whose clues are all Negation clues and leave more than one
\* triple un-eliminated is reported ambiguous, whichever assignment the solver
\* returns.
C3_NegationOnlyIsAmbiguous ==
    (/\ Done
     /\ Len(Clues) > 0
     /\ \A k \in ClueIdx : Clues[k].type = "negation"
     /\ N > 1) => result.status = "ambiguous"

\* C4: the puzzle of test_easy_valid (scenario A) is reported valid with the
\* declared actor A, whichever assignment the solver returns.
C4_ScenarioAIsValid ==
    (Done /\ puzzle = test_easy_valid) =>
        /\ result.status = "valid"
        /\ result.solution.actor = A

\* the case of C5: some vector v is denied to every actor by a Negation clue,
\* and an Affirmative clue resolves to (v, t)
C5_Case ==
    \E v \in Range(puzzle.vectors), t \in Range(puzzle.assets) :
        /\ \A a \in Range(puzzle.actors) : \E k \in ClueIdx : IsNegation(k, a, v)
        /\ \E k \in ClueIdx : IsAffirmative(k, v, t)

\* C5: when every actor has a Negation clue on vector v and an Affirmative
\* clue resolves to (v, t), the verdict is invalid with reason unsatisfiable,
\* whatever the other clues and the declared solution are.
C5_DeniedVectorAffirmedIsUnsat == (Done /\ C5_Case) => result = Unsatisfiable

C5_Witness ==
    /\ Done
    /\ C5_Case
    /\ result = Unsatisfiable
    /\ \E k \in ClueIdx : Clues[k].type \in {"conditional", "relational"}

\* the triples clue k forces false (table of archetypes: Negation,
\* Relational, Conditional on another asset); None equals no label
EliminatedBy(k) ==
    CASE Clues[k].type = "negation" ->
             UNION {{u \in Triples : u[1] = a /\ u[2] = v} :
                        a \in {ActorOf(k)}, v \in {VectorOf(k)}}
      [] Clues[k].type = "relational" ->
             UNION {{u \in Triples : u[2] = v /\ u[3] = t} :
                        v \in {VectorOf(k)}, t \in {AssetOf(k)}}
      [] Clues[k].type = "conditional" ->
             UNION {{u \in Triples : u[1] = a /\ u[2] = v /\ u[3] # t} :
                        a \in {ActorOf(k)}, v \in {VectorOf(k)}, t \in {AssetOf(k)} \ {None}}
      [] OTHER -> {}

\* the (vector, asset) pairs the Affirmative clues ask for
Affirmed ==
    {pr \in {<<VectorOf(k), AssetOf(k)>> : k \in {j \in ClueIdx : Clues[j].type = "affirmative"}} :
        pr[1] # None /\ pr[2] # None}

\* the case of C6: the clues eliminate every triple except T (each other
\* triple is forced false by a clue, T by none, and no Affirmative clue asks
\* for another pair than T's), and the declared triple is not T
C6_Case(T) ==
    /\ Declared # T
    /\ Triples \ UNION {EliminatedBy(k) : k \in ClueIdx} = {T}
    /\ Affirmed \subseteq {<<T[2], T[3]>>}

\* C6: when the clues eliminate every triple except T and the declared
\* triple differs from T, the verdict is mismatch with found = T and
\* expected = the declared triple.
C6_PinnedTripleMismatch ==
    Done => \A left \in {Triples \ UNION {EliminatedBy(k) : k \in ClueIdx}} :
        \A T \in left :
            (left = {T} /\ Declared # T /\ Affirmed \subseteq {<<T[2], T[3]>>}) =>
                result = MismatchVerdict(T, Declared)

C6_Witness ==
    /\ Done
    /\ Len(Clues) > Len(ScenarioMismatch)
    /\ result.status = "mismatch"
    /\ C6_Case(result.found)

\* C7: negation soundness: no triple reported by a verdict has the actor and
\* the vector of a resolved Negation clue.
C7_NegationSoundness ==
    Done => \A k \in ClueIdx : \A a \in Range(puzzle.actors), v \in Range(puzzle.vectors) :
        IsNegation(k, a, v) => \A u \in Reported(result) : ~(u[1] = a /\ u[2] = v)

C7_Witness ==
    /\ Done
    /\ \E k \in ClueIdx : \E u \in Reported(result) :
           IsNegation(k, u[1], VectorOf(k)) /\ u[2] # VectorOf(k)

\* C8: a Conditional clue resolved to (a, v, t0) makes every (a, v, t) with
\* t # t0 false in the returned assignment and absent from the verdict, and
\* its own constraints leave (a, v, t0) and every triple with another actor
\* or another vector possible.
C8_ConditionalBiconditional ==
    Done => \A k \in ClueIdx :
        \A a \in Range(puzzle.actors), v \in Range(puzzle.vectors), t0 \in Range(puzzle.assets) :
            IsConditional(k, a, v, t0) =>
                /\ \A u \in Reported(result) : (u[1] = a /\ u[2] = v) => u[3] = t0
                /\ result # Unsatisfiable =>
                       \A t \in Range(puzzle.assets) \ {t0} : Var(trip_vars, <<a, v, t>>) \notin model
                /\ \A own \in {ConditionalConstraints(Clues[k].text, puzzle, trip_vars)} :
                       \A u \in Triples :
                           (u = <<a, v, t0>> \/ u[1] # a \/ u[2] # v) =>
                               \A j \in 1..Len(own) : Holds({Var(trip_vars, u)}, own[j])

C8_Witness ==
    /\ Done
    /\ result.status = "ambiguous"
    /\ \E k \in ClueIdx : \E u \in Reported(result) : IsConditional(k, u[1], u[2], u[3])

\* C9: a Relational clue resolved to (v, t0) makes (a, v, t0) false for every
\* actor a in the returned assignment and absent from the verdict, and its
\* own constraints leave possible the triples with the same vector and
\* another asset, or the same asset and another vector.
C9_RelationalExclusion ==
    Done => \A k \in ClueIdx :
        \A v \in Range(puzzle.vectors), t0 \in Range(puzzle.assets) :
            IsRelational(k, v, t0) =>
                /\ \A u \in Reported(result) : ~(u[2] = v /\ u[3] = t0)
                /\ result # Unsatisfiable =>
                       \A a \in Range(puzzle.actors) : Var(trip_vars, <<a, v, t0>>) \notin model
                /\ \A own \in {RelationalConstraints(Clues[k].text, puzzle, trip_vars)} :
                       \A u \in Triples :
                           ((u[2] = v /\ u[3] # t0) \/ (u[2] # v /\ u[3] = t0)) =>
                               \A j \in 1..Len(own) : Holds({Var(trip_vars, u)}, own[j])

C9_Witness ==
    /\ Done
    /\ \E k \in ClueIdx : \E u1, u2 \in Reported(result) :
           /\ IsRelational(k, u1[2], u2[3])
           /\ u1[3] # u2[3]
           /\ u2[2] # u1[2]

\* C10: an Affirmative clue resolved to (v, t0) makes (a, v, t0) true for at
\* least one actor a in the returned assignment, and the single derived
\* triple of a mismatch or valid verdict has vector v and asset t0.
C10_AffirmativeExistence ==
    (Done /\ result # Unsatisfiable) => \A k \in ClueIdx :
        \A v \in Range(puzzle.vectors), t0 \in Range(puzzle.assets) :
            IsAffirmative(k, v, t0) =>
                /\ \E a \in Range(puzzle.actors) : Var(trip_vars, <<a, v, t0>>) \in model
                /\ result.status \in {"mismatch", "valid"} =>
                       \A u \in Reported(result) : u[2] = v /\ u[3] = t0

C10_Witness ==
    /\ Done
    /\ result.status \in {"mismatch", "valid"}
    /\ \E k \in ClueIdx : \E u \in Reported(result) : IsAffirmative(k, u[2], u[3])

(* ---------------------------- the clue loop as a function -------------- *)

\* what one iteration of `for clue in puzzle['clues']` adds to s for clue c
ConstraintsOf(c, p, tv) ==
    CASE c.type = "negation"       -> NegationConstraints(c.text, p, tv)
      [] c.type = "affirmative"    -> AffirmativeConstraints(c.text, p, tv)
      [] c.type = "relational"     -> RelationalConstraints(c.text, p, tv)
      [] c.type = "conditional"    -> ConditionalConstraints(c.text, p, tv)
      [] c.type = "data-inference" -> DataInferenceConstraints(c.text, p, tv)
      [] OTHER                     -> << >>

\* what the whole loop adds to s for the clue list cs
RECURSIVE Compile(_, _, _)
Compile(cs, p, tv) ==
    IF cs = << >> THEN << >> ELSE ConstraintsOf(Head(cs), p, tv) \o Compile(Tail(cs), p, tv)

\* the clue loop has ended
Compiled == pc \in {"clues", "done"} /\ i > Len(Clues)

\* the clue list without its data-inference clues
WithoutDataInference == SelectSeq(Clues, LAMBDA c : c.type # "data-inference")

\* C11: the data-inference clues add nothing to s: the clue constraints are
\* those of the clue list without its data-inference clues, and removing
\* them changes the verdict of the returned assignment at most between valid
\* and data-not-inferable.
C11_DataInferenceNoConstraint ==
    Compiled =>
        /\ ClueConstraints = Compile(WithoutDataInference, puzzle, trip_vars)
        /\ (Done /\ result # Unsatisfiable) =>
               \A r2 \in {Classify([puzzle EXCEPT !.clues = WithoutDataInference], trip_vars, model)} :
                   IF result.status \in {"valid", "data-not-inferable"}
                   THEN r2.status \in {"valid", "data-not-inferable"}
                   ELSE r2 = result

C11_Witness ==
    /\ Done
    /\ Len(ClueConstraints) > 0
    /\ result.status = "mismatch"
    /\ \E k \in ClueIdx : Clues[k].type = "data-inference" /\ VectorOf(k) # None

(* ---------------------------- verdict classifier claims ---------------- *)

\* the triples true in the returned assignment, in dictionary order
Derived == TrueTriples(trip_vars, model)

NoSolutionFound == NoSolutionVerdict

\* the declared stolen-data label occurs in no clue text
NoClueMentionsData == \A k \in ClueIdx : ~Contains(Clues[k].text, puzzle.solution.stolen_data)

\* C12: the first condition that fires decides: unsatisfiable constraints give
\* the unsatisfiable verdict; otherwise several true triples give ambiguous,
\* none gives no-solution-found, one that differs from the declared triple
\* gives mismatch, all of this also when no clue mentions the stolen data;
\* data-not-inferable and valid are returned only for a single derived triple
\* equal to the declared one.
C12_VerdictPrecedence ==
    Done =>
        /\ (result = Unsatisfiable) => Models(trip_vars, s) = {}
        /\ (result # Unsatisfiable) =>
               /\ \A k \in 1..Len(s) : Holds(model, s[k])
               /\ Len(Derived) > 1 => result.status = "ambiguous"
               /\ Len(Derived) = 0 => result = NoSolutionFound
               /\ (Len(Derived) = 1 /\ Derived[1] # Declared) => result.status = "mismatch"
               /\ result.status \in {"data-not-inferable", "valid"} => Derived = <<Declared>>
               /\ result.status = "data-not-inferable" => NoClueMentionsData

C12_Witness ==
    /\ Done
    /\ NoClueMentionsData
    /\ result.status = "mismatch"
    /\ Len(Clues) > 0

\* C13: when the single derived triple is the declared one, the verdict is
\* data-not-inferable iff the declared stolen-data label is a substring of no
\* clue text, whatever the archetype of the clue and whether or not it was
\* skipped, and valid otherwise.
C13_DataNotInferableIffUnmentioned ==
    (Done /\ result # Unsatisfiable /\ Derived = <<Declared>>) =>
        /\ (result.status = "data-not-inferable") <=> NoClueMentionsData
        /\ (result.status = "valid") <=> ~NoClueMentionsData

C13_Witness ==
    /\ Done
    /\ result.status = "valid"
    /\ \A k \in ClueIdx : Clues[k].type = "negation" /\ ActorOf(k) = None

\* C14: a valid verdict returns the declared quadruple and a summary with the
\* size of the triple space and the number of clues of the puzzle.
C14_ValidPayload ==
    (Done /\ result.status = "valid") =>
        /\ result.solution = puzzle.solution
        /\ result.validation_summary.total_possibilities =
               Len(puzzle.actors) * Len(puzzle.vectors) * Len(puzzle.assets)
        /\ result.validation_summary.clues_processed = Len(Clues)

C14_Witness ==
    /\ Done
    /\ result.status = "valid"
    /\ Len(Clues) > 0
    /\ Len(ClueConstraints) = 0

\* C15: the verdict is a function of the puzzle: every assignment the solver
\* may return for the constraints of the puzzle gives the verdict that was
\* returned, so that two runs on the same puzzle agree.
C15_VerdictIndependentOfAssignment ==
    (Done /\ result # Unsatisfiable) =>
        \A m \in Models(trip_vars, s) : Classify(puzzle, trip_vars, m) = result

(* ---------------------------- entity resolver claims ------------------- *)

\* the catalog positions of the items that occur in the text
Matches(catalog, text) == {j \in 1..Len(catalog) : Contains(text, catalog[j])}

\* C16: for every clue and every catalog of the triple space, the resolved
\* item is the matching item of least catalog position, and None exactly when
\* no item matches; a Negation clue that resolves forbids the triples of that
\* first actor and first vector.
C16_FirstMatchInCatalogOrder ==
    (pc = "clues") => \A k \in ClueIdx :
        /\ \A cat \in {puzzle.actors, puzzle.vectors, puzzle.assets} :
               \A r \in {Resolve(cat, Clues[k].text)}, hits \in {Matches(cat, Clues[k].text)} :
                   /\ (r = None) <=> (hits = {})
                   /\ (r # None) => \E j \in hits : cat[j] = r /\ \A h \in hits : j <= h
        /\ (k < i /\ Clues[k].type = "negation") =>
               \A ha \in {Matches(puzzle.actors, Clues[k].text)},
                  hv \in {Matches(puzzle.vectors, Clues[k].text)} :
                   (ha # {} /\ hv # {}) =>
                       \A a \in {puzzle.actors[j] : j \in {h \in ha : \A g \in ha : h <= g}},
                          v \in {puzzle.vectors[j] : j \in {h \in hv : \A g \in hv : h <= g}},
                          t \in Range(puzzle.assets) :
                           Not(VarName(a, v, t)) \in Range(s)

C16_Witness ==
    /\ pc = "clues"
    /\ \E k \in ClueIdx :
           /\ k < i
           /\ Clues[k].type = "negation"
           /\ Cardinality(Matches(puzzle.actors, Clues[k].text)) > 1
           /\ VectorOf(k) # None

\* a category the archetype of clue c requires resolves to no item
Skipped(c) ==
    CASE c.type = "negation" ->
             Resolve(puzzle.actors, c.text) = None \/ Resolve(puzzle.vectors, c.text) = None
      [] c.type \in {"affirmative", "relational"} ->
             Resolve(puzzle.vectors, c.text) = None \/ Resolve(puzzle.assets, c.text) = None
      [] c.type = "conditional" ->
             \/ Resolve(puzzle.actors, c.text) = None
             \/ Resolve(puzzle.vectors, c.text) = None
             \/ Resolve(puzzle.assets, c.text) = None
      [] OTHER -> FALSE

\* C17: a clue with an unresolved required category adds no constraint, the
\* clue constraints are those of the other clues, and the verdict is the
\* verdict of the returned assignment for the puzzle under those constraints.
C17_SkippedClueNoConstraint ==
    Compiled =>
        /\ \A k \in ClueIdx : Skipped(Clues[k]) => ConstraintsOf(Clues[k], puzzle, trip_vars) = << >>
        /\ \A rest \in {Compile(SelectSeq(Clues, LAMBDA c : ~Skipped(c)), puzzle, trip_vars)} :
               /\ ClueConstraints = rest
               /\ (Done /\ result # Unsatisfiable) =>
                      /\ \A k \in 1..Len(rest) : Holds(model, rest[k])
                      /\ result = Classify(puzzle, trip_vars, model)

C17_Witness ==
    /\ Done
    /\ result.status = "mismatch"
    /\ Len(ClueConstraints) > 0
    /\ \E k \in ClueIdx : Skipped(Clues[k]) /\ Clues[k].type = "conditional"

\* C18: a run that skipped a clue says so, in what it printed or in its
\* verdict (a count of processed clues below the number of clues).
C18_SkippedCluesSurfaced ==
    (Done /\ \E k \in ClueIdx : Skipped(Clues[k])) =>
        \/ log # << >>
        \/ /\ result.status = "valid"
           /\ result.validation_summary.clues_processed < Len(Clues)

(* ---------------------------- precondition claims ---------------------- *)

\* the error the specification asks for; validate_puzzle has no such outcome
InvalidPuzzle == [status |-> "error", error |-> "InvalidPuzzle"]

EmptyCatalog == puzzle.actors = << >> \/ puzzle.vectors = << >> \/ puzzle.assets = << >>

\* C19: a puzzle with an empty Actors, Vectors or Assets catalog ends in the
\* InvalidPuzzle error and no verdict.
C19_EmptyCatalogIsError == (Done /\ EmptyCatalog) => result = InvalidPuzzle

DeclaredOutOfCatalog ==
    \/ puzzle.solution.actor \notin Range(puzzle.actors)
    \/ puzzle.solution.vector \notin Range(puzzle.vectors)
    \/ puzzle.solution.asset \notin Range(puzzle.assets)
    \/ puzzle.solution.stolen_data \notin Range(puzzle.stolen_data)

\* C20: a declared solution with a component outside its catalog ends in a
\* mismatch verdict or the InvalidPuzzle error, whatever the clues.
C20_OutOfCatalogIsMismatch ==
    (Done /\ DeclaredOutOfCatalog) => (result.status = "mismatch" \/ result = InvalidPuzzle)

(* ---------------------------- verdict shape claims --------------------- *)

\* a text with at least one character
NonEmptyText(x) == \E k \in 1..Len(x) : Len(x[k]) > 0

\* C21: every returned verdict has a non-empty explanation; every verdict
\* other than valid has a non-empty list of suggestions; mismatch carries the
\* found and the expected triple, ambiguous the solutions list, valid the
\* solution quadruple.
C21_VerdictFieldsPopulated ==
    Done =>
        /\ "explanation" \in DOMAIN result /\ NonEmptyText(result.explanation)
        /\ (result.status # "valid") =>
               /\ "suggestions" \in DOMAIN result
               /\ Len(result.suggestions) > 0
        /\ (result.status = "mismatch") =>
               /\ {"found", "expected"} \subseteq DOMAIN result
               /\ result.found \in Triples
               /\ result.expected = Declared
        /\ (result.status = "ambiguous") =>
               /\ "solutions" \in DOMAIN result
               /\ Len(result.solutions) > 0
               /\ Range(result.solutions) \subseteq Triples
        /\ (result.status = "valid") =>
               /\ "solution" \in DOMAIN result
               /\ DOMAIN result.solution = {"actor", "vector", "asset", "stolen_data"}

C21_Witness ==
    /\ Done
    /\ result.status = "data-not-inferable"
    /\ Len(Clues) > 0

\* the return statement of validate_puzzle a verdict comes from
Category(r) ==
    CASE r = Unsatisfiable          -> "Invalid-Unsatisfiable"
      [] r = NoSolutionVerdict      -> "Invalid-NoSolution"
      [] "solutions" \in DOMAIN r   -> "Ambiguous"
      [] "found" \in DOMAIN r       -> "Mismatch"
      [] "solution" \in DOMAIN r    -> "Valid"
      [] OTHER                      -> "DataNotInferable"

\* C22: the status of the returned verdict belongs to one category only: no
\* return statement of another category of the classifier produces a verdict
\* with the same status.
C22_StatusTellsOutcomesApart ==
    Done =>
        \A r \in {Unsatisfiable} \cup {Classify(puzzle, trip_vars, m) : m \in Assignments(trip_vars)} :
            (r.status = result.status) => (Category(r) = Category(result))

(* ---------------------------- clue order claims ------------------------ *)

\* the clue lists that are reorderings of the clue list q
Reorderings(q) ==
    {[k \in 1..Len(q) |-> q[f[k]]] :
        f \in {g \in [1..Len(q) -> 1..Len(q)] : \A a, b \in 1..Len(q) : g[a] = g[b] => a = b}}

\* the assertions of the solver after the clue loop, for the clue list q
SolverFor(q) ==
    <<AtLeastOne(trip_vars)>> \o PairwiseNotBoth(trip_vars) \o Compile(q, puzzle, trip_vars)

Alone(T) == {Var(trip_vars, T)}

\* C24: every triple in the solutions list of an ambiguous verdict, taken as
\* the only true triple, satisfies every constraint compiled from the clues,
\* and the list holds at least two distinct triples.
C24_AmbiguousSolutionsSatisfy ==
    (Done /\ result.status = "ambiguous") =>
        /\ Cardinality(Range(result.solutions)) >= 2
        /\ \A T \in Range(result.solutions) :
               \A k \in 1..Len(ClueConstraints) : Holds(Alone(T), ClueConstraints[k])

(* ---------------------------- variable naming claims ------------------- *)

\* labels that contain the separator of the variable names
A_X == <<"A", "_", "X">>
X_Y == <<"X", "_", "Y">>

SeparatorClues ==
    {NegationClue(A, X_Y), AffirmativeClue(Y, S1), RelationalClue(Y, S2),
     ConditionalClue(A_X, Y, S1), DataInferenceClue(Y, D1)}

\* catalogs of distinct labels: (A, X_Y, t) and (A_X, Y, t) are distinct triples
SeparatorPuzzles ==
    {Puzzle(<<A, A_X>>, <<X_Y, Y>>, SmallAssets, SmallData, sol, extra) :
        sol \in {Solution(A, X_Y, S1, D1), Solution(A_X, Y, S2, D1)},
        extra \in SeqsUpTo(SeparatorClues, MaxClues)}

InitSeparator ==
    /\ puzzle \in SeparatorPuzzles
    /\ pc = "start"
    /\ i = 0
    /\ trip_vars = << >>
    /\ s = << >>
    /\ model = {}
    /\ result = NoResult
    /\ log = << >>
    /\ files = {}
    /\ returned = "none"
    /\ site = << >>
    /\ cells = << >>

SpecSeparator == InitSeparator /\ [][Next]_vars

\* C25: distinct triples of the triple space have distinct decision
\* variables, so that the variables a Negation clue forbids belong to
\* triples of the clue's actor and vector only.
C25_DistinctTriplesDistinctVariables ==
    (pc # "start") =>
        /\ \A j, k \in 1..Len(trip_vars) :
               (j # k) => (trip_vars[j].var # trip_vars[k].var)
        /\ \A k \in ClueIdx :
               (k < i /\ Clues[k].type = "negation" /\ ActorOf(k) # None /\ VectorOf(k) # None) =>
                   \A T \in Triples :
                       (Not(Var(trip_vars, T)) \in Range(ConstraintsOf(Clues[k], puzzle, trip_vars))) =>
                           (T[1] = ActorOf(k) /\ T[2] = VectorOf(k))

(* ---------------------------- defensive verdict claims ----------------- *)

\* C30: the at-least-one disjunction is always the first assertion of s,
\* every assignment that satisfies s has a true triple, and no run ends with
\* the verdict invalid / 'no solution found'.
C30_NoSolutionUnreachable ==
    /\ (pc # "start") => (Len(s) > 0 /\ s[1] = AtLeastOne(trip_vars))
    /\ Compiled /\ pc = "clues" =>
           \A m \in Models(trip_vars, s) : Len(TrueTriples(trip_vars, m)) >= 1
    /\ Done =>
           /\ result # NoSolutionVerdict
           /\ (result.status = "invalid") => (result = Unsatisfiable)
           /\ (result # Unsatisfiable) => Len(Derived) >= 1

C30_Witness ==
    /\ Done
    /\ result # Unsatisfiable
    /\ Len(ClueConstraints) > 0
    /\ Len(Derived) = 1

(* ---------------------------- logic grid of a puzzle page -------------- *)

\* number of cells of the grid
NumCells == 5

\* the values of className
GridCell == <<"g", "r", "i", "d", "-", "c", "e", "l", "l">>

GridCellMarked == <<"g", "r", "i", "d", "-", "c", "e", "l", "l", " ", "m", "a", "r", "k", "e", "d">>

GridCellEliminated == <<"g", "r", "i", "d", "-", "c", "e", "l", "l", " ", "e", "l", "i", "m", "i", "n", "a", "t", "e", "d">>

\* cell.addEventListener('click', ...)
OnClick(currentState) ==
    IF Contains(currentState, <<"m", "a", "r", "k", "e", "d">>) THEN GridCellEliminated
    ELSE IF Contains(currentState, <<"e", "l", "i", "m", "i", "n", "a", "t", "e", "d">>) THEN GridCell
    ELSE GridCellMarked

\* faulty variant: a right click eliminates a marked cell too
OnContextMenu_Always(className) == GridCellEliminated

\* cell.addEventListener('contextmenu', ...)
OnContextMenu(className) ==
    IF ~Contains(className, <<"m", "a", "r", "k", "e", "d">>) THEN GridCellEliminated ELSE className

\* the page as generated: every cell is <div class="grid-cell">
InitGrid ==
    /\ cells = [c \in 1..NumCells |-> GridCell]
    /\ puzzle = test_easy_valid
    /\ pc = "page"
    /\ i = 0
    /\ trip_vars = << >>
    /\ s = << >>
    /\ model = {}
    /\ result = NoResult
    /\ log = << >>
    /\ files = {}
    /\ returned = "none"
    /\ site = << >>

Click(c) ==
    /\ pc = "page"
    /\ cells' = [cells EXCEPT ![c] = OnClick(cells[c])]
    /\ UNCHANGED <<puzzle, pc, i, trip_vars, s, model, result, log, files, returned, site>>

ContextMenu(c) ==
    /\ pc = "page"
    /\ cells' = [cells EXCEPT ![c] = OnContextMenu(cells[c])]
    /\ UNCHANGED <<puzzle, pc, i, trip_vars, s, model, result, log, files, returned, site>>

NextGrid ==
    \/ \E c \in 1..NumCells : Click(c)
    \/ \E c \in 1..NumCells : ContextMenu(c)

SpecGrid == InitGrid /\ [][NextGrid]_vars

\* the state a class name stands for
CellState(className) ==
    CASE className = GridCell           -> "empty"
      [] className = GridCellMarked     -> "marked"
      [] className = GridCellEliminated -> "eliminated"
      [] OTHER                          -> "none"

AfterLeftClick == [empty |-> "marked", marked |-> "eliminated", eliminated |-> "empty"]

AfterRightClick == [empty |-> "eliminated", marked |-> "marked", eliminated |-> "eliminated"]

\* C29: every cell is always empty, marked or eliminated; on every cell a
\* left click leads from empty to marked, from marked to eliminated and from
\* eliminated to empty, so that three left clicks restore the cell; a right
\* click leads to eliminated unless the cell is marked, which it leaves as it
\* is; and a step changes no cell but the clicked one.
C29_GridCellCycle ==
    /\ [](\A c \in 1..NumCells :
              /\ CellState(cells[c]) \in {"empty", "marked", "eliminated"}
              /\ CellState(OnClick(cells[c])) = AfterLeftClick[CellState(cells[c])]
              /\ OnClick(OnClick(OnClick(cells[c]))) = cells[c]
              /\ CellState(OnContextMenu(cells[c])) = AfterRightClick[CellState(cells[c])])
    /\ [][\E c \in 1..NumCells :
              /\ \A d \in 1..NumCells \ {c} : cells'[d] = cells[d]
              /\ cells'[c] \in {OnClick(cells[c]), OnContextMenu(cells[c])}]_cells

C29_Witness ==
    /\ pc = "page"
    /\ \E c, d, e \in 1..NumCells :
           /\ CellState(cells[c]) = "empty"
           /\ CellState(cells[d]) = "marked"
           /\ CellState(cells[e]) = "eliminated"

(* ---------------------------- puzzle creator --------------------------- *)

\* AutomaticPuzzleGenerator._generate_random_clues
generate_random_clues(actors, vectors, assets, solution) ==
    LET other_actors  == SelectSeq(actors, LAMBDA a : a # solution.actor)
        other_vectors == SelectSeq(vectors, LAMBDA v : v # solution.vector)
        other_assets  == SelectSeq(assets, LAMBDA a : a # solution.asset)
    IN  [k \in 1..Len(other_actors) |-> NegationClue(other_actors[k], solution.vector)]
        \o [k \in 1..Len(other_vectors) |-> NegationClue(solution.actor, other_vectors[k])]
        \o [k \in 1..Len(other_assets) |-> RelationalClue(solution.vector, other_assets[k])]

\* AutomaticPuzzleGenerator.generate_puzzle, for the selected catalogs, the
\* one selected data type and the chosen solution
generate_puzzle(actors, vectors, assets, datatypes, solution) ==
    Puzzle(actors, vectors, assets, datatypes, solution,
           generate_random_clues(actors, vectors, assets, solution))

\* a label that is distinct from A and contains it
AB == <<"A", "B">>

\* the catalogs select_random_subset may return: distinct labels, up to
\* AUTO_ITEMS_PER_CATEGORY = 3 per category
AutoCatalogs ==
    {<<<<A>>, SmallVectors, SmallAssets>>,
     <<SmallActors, SmallVectors, SmallAssets>>,
     <<<<A, AB>>, SmallVectors, SmallAssets>>,
     <<<<A, B, C>>, <<X, Y, Z>>, <<S1, S2, S3>> >>}

AutomaticPuzzles ==
    {generate_puzzle(cats[1], cats[2], cats[3], <<D1>>, Solution(a, v, t, D1)) :
        cats \in {c \in AutoCatalogs : Len(c[2]) < 3},
        a \in {A}, v \in Range(SmallVectors), t \in Range(SmallAssets)}
    \cup
    {generate_puzzle(cats[1], cats[2], cats[3], <<D1>>, Solution(B, v, t, D1)) :
        cats \in {c \in AutoCatalogs : c[1] = SmallActors},
        v \in Range(SmallVectors), t \in Range(SmallAssets)}
    \cup
    {generate_puzzle(cats[1], cats[2], cats[3], <<D1>>, sol) :
        cats \in {c \in AutoCatalogs : Len(c[1]) = 3},
        sol \in {Solution(A, X, S2, D1), Solution(C, Z, S3, D1), Solution(B, X, S1, D1)}}

\* puzzles entered by hand: the solution is chosen from the catalogs
ManualPuzzles ==
    {test_easy_valid, test_ambiguous_fails}
    \cup {Puzzle(SmallActors, SmallVectors, SmallAssets, SmallData, Solution(A, X, S2, D1), <<c>>) :
            c \in {NegationClue(B, X), AffirmativeClue(X, S2), RelationalClue(X, S1),
                   ConditionalClue(A, X, S2), DataInferenceClue(X, D1)}}
    \cup {Puzzle(SmallActors, SmallVectors, SmallAssets, SmallData, Solution(A, X, S2, D1),
                 ScenarioC)}

\* no puzzle yet
NoPuzzle == Puzzle(<< >>, << >>, << >>, << >>, Solution(None, None, None, None), << >>)

(* ---------------------------- puzzles directory ------------------------ *)

Digit == <<"0", "1", "2", "3", "4", "5", "6", "7", "8", "9">>

\* str(n)
RECURSIVE DigitsOf(_)
DigitsOf(n) == IF n < 10 THEN <<Digit[n + 1]>> ELSE DigitsOf(n \div 10) \o <<Digit[(n % 10) + 1]>>

\* int(d) for a sequence of digits
RECURSIVE IntOf(_)
IntOf(d) ==
    IF d = << >> THEN 0
    ELSE 10 * IntOf(SubSeq(d, 1, Len(d) - 1)) + ((CHOOSE k \in 1..10 : Digit[k] = d[Len(d)]) - 1)

IsDigits(d) == d # << >> /\ \A k \in 1..Len(d) : d[k] \in Range(Digit)

HasPrefix(name, prefix) ==
    Len(name) >= Len(prefix) /\ SubSeq(name, 1, Len(prefix)) = prefix

HasSuffix(name, suffix) ==
    Len(name) >= Len(suffix) /\ SubSeq(name, Len(name) - Len(suffix) + 1, Len(name)) = suffix

\* f"web_{puzzle_number}.json"
FileName(puzzle_number) == <<"w", "e", "b", "_">> \o DigitsOf(puzzle_number) \o <<".", "j", "s", "o", "n">>

\* re.match(r'web_(\d+)\.json', name).group(1), None without a match
PatternNumber(name) ==
    LET runs == {k \in 1..(Len(name) - 4) : IsDigits(SubSeq(name, 5, 4 + k))}
        run  == CHOOSE k \in runs : \A j \in runs : j <= k
    IN  IF HasPrefix(name, <<"w", "e", "b", "_">>) /\ runs # {}
           /\ HasPrefix(SubSeq(name, 5 + run, Len(name)), <<".", "j", "s", "o", "n">>)
        THEN SubSeq(name, 5, 4 + run)
        ELSE None

\* PuzzleManager.get_next_puzzle_number
get_next_puzzle_number(fs) ==
    LET numbers == {IntOf(PatternNumber(f.name)) : f \in {g \in fs : PatternNumber(g.name) # None}}
    IN  IF numbers = {} THEN 1 ELSE (CHOOSE n \in numbers : \A m \in numbers : m <= n) + 1

\* PuzzleManager.save_puzzle: open(filename, "w") and json.dump
save_puzzle(fs, p, puzzle_number) ==
    {f \in fs : f.name # FileName(puzzle_number)}
    \cup {[name |-> FileName(puzzle_number), content |-> p]}

\* faulty variant: a verdict that lacks only the stolen-data mention is saved too
Accepted_DataNotInferable(r) == r.status \in {"valid", "data-not-inferable"}

\* if result['status'] == 'valid'
Accepted(r) == r.status = "valid"

(* ---------------------------- site generator --------------------------- *)

\* self.puzzles_dir.glob("web_*_draft.json")
GlobDraft(name) ==
    /\ Len(name) >= Len(<<"w", "e", "b", "_">>) + Len(<<"_", "d", "r", "a", "f", "t", ".", "j", "s", "o", "n">>)
    /\ HasPrefix(name, <<"w", "e", "b", "_">>)
    /\ HasSuffix(name, <<"_", "d", "r", "a", "f", "t", ".", "j", "s", "o", "n">>)

\* puzzle_file.stem.split('_')[1], for a name with two underscores or more
StemField(name) ==
    LET rest == SubSeq(name, 5, Len(name))
        stop == CHOOSE k \in 1..Len(rest) : rest[k] = "_" /\ \A j \in 1..(k - 1) : rest[j] # "_"
    IN  SubSeq(rest, 1, stop - 1)

\* the files load_puzzles appends: a name whose number does not parse raises
\* inside the try block and the file is left out
Loadable(fs) == {f \in fs : GlobDraft(f.name) /\ IsDigits(StemField(f.name))}

\* a set of loaded puzzles as the list sorted by puzzle_number
RECURSIVE SortByNumber(_)
SortByNumber(ps) ==
    IF ps = {} THEN << >>
    ELSE LET least == CHOOSE p \in ps : \A q \in ps : p.puzzle_number <= q.puzzle_number
         IN  <<least>> \o SortByNumber(ps \ {least})

\* WebsiteGenerator.load_puzzles
load_puzzles(fs) ==
    SortByNumber({[puzzle_number |-> IntOf(StemField(f.name)), puzzle |-> f.content] : f \in Loadable(fs)})

(* ---------------------------- generate_all ----------------------------- *)

\* a puzzle saved by an earlier run
OldPuzzle == Puzzle(SmallActors, SmallVectors, SmallAssets, SmallData, Solution(B, Y, S1, D2), << >>)

\* the puzzles directory before the run
ExistingDirs ==
    {{},
     {[name |-> FileName(1), content |-> OldPuzzle]},
     {[name |-> <<"w", "e", "b", "_", "1", "_", "d", "r", "a", "f", "t", ".", "j", "s", "o", "n">>, content |-> OldPuzzle]},
     {[name |-> FileName(1), content |-> OldPuzzle], [name |-> <<"w", "e", "b", "_", "2", "_", "d", "r", "a", "f", "t", ".", "j", "s", "o", "n">>, content |-> OldPuzzle]}}

InitCreator ==
    /\ puzzle = NoPuzzle
    /\ pc = "create"
    /\ i = 0
    /\ trip_vars = << >>
    /\ s = << >>
    /\ model = {}
    /\ result = NoResult
    /\ log = << >>
    /\ files \in ExistingDirs
    /\ returned = "none"
    /\ site = << >>
    /\ cells = << >>

\* create_puzzle in automatic mode
CreateAutomatic ==
    /\ pc = "create"
    /\ puzzle' \in AutomaticPuzzles
    /\ pc' = "start"
    /\ UNCHANGED <<i, trip_vars, s, model, result, log, files, returned, site, cells>>

\* create_puzzle in manual mode
CreateManual ==
    /\ pc = "create"
    /\ puzzle' \in ManualPuzzles
    /\ pc' = "start"
    /\ UNCHANGED <<i, trip_vars, s, model, result, log, files, returned, site, cells>>

\* create_puzzle returns None (cancelled, or an exception it catches) and
\* main ends normally
CreateCancelled ==
    /\ pc = "create"
    /\ pc' = "exit"
    /\ UNCHANGED <<puzzle, i, trip_vars, s, model, result, log, files, returned, site, cells>>

\* the puzzle_creator.py process ends with a non-zero exit code;
\* run_command returns False and generate_all stops
CreatorFails ==
    /\ pc = "create"
    /\ pc' = "stopped"
    /\ UNCHANGED <<puzzle, i, trip_vars, s, model, result, log, files, returned, site, cells>>

\* PuzzleCreator.validate_and_save, after validate_puzzle has returned
ValidateAndSave ==
    /\ pc = "done"
    /\ IF Accepted(result)
       THEN /\ files' = save_puzzle(files, puzzle, get_next_puzzle_number(files))
            /\ returned' = "True"
       ELSE /\ files' = files
            /\ returned' = "False"
    /\ pc' = "exit"
    /\ UNCHANGED <<puzzle, i, trip_vars, s, model, result, log, site, cells>>

\* step 2 of generate_all: website_generator.py loads the puzzles and writes
\* one page per loaded puzzle
GenerateWebsite ==
    /\ pc = "exit"
    /\ site' = load_puzzles(files)
    /\ pc' = "site"
    /\ UNCHANGED <<puzzle, i, trip_vars, s, model, result, log, files, returned, cells>>

NextCreator ==
    \/ CreateAutomatic
    \/ CreateManual
    \/ CreateCancelled
    \/ CreatorFails
    \/ BuildModel
    \/ EncodeNegation
    \/ EncodeAffirmative
    \/ EncodeRelational
    \/ EncodeConditional
    \/ EncodeDataInference
    \/ Check
    \/ ValidateAndSave
    \/ GenerateWebsite

SpecCreator == InitCreator /\ [][NextCreator]_vars

(* ---------------------------- creator claims --------------------------- *)

\* the clue list of the puzzle is the one the automatic generator writes
Generated ==
    Clues = generate_random_clues(puzzle.actors, puzzle.vectors, puzzle.assets, puzzle.solution)

\* C26: after the clues of an automatically generated puzzle are compiled,
\* the declared triple is not eliminated and is the only triple of the
\* triple space that still satisfies the clue constraints.
C26_GeneratedCluesLeaveOnlySolution ==
    (Compiled /\ Generated /\ Len(Clues) > 0) =>
        /\ Declared \in Survivors
        /\ Survivors = {Declared}

\* C27: validate_and_save returns True and adds one file holding the puzzle
\* when the verdict of that puzzle is valid, and otherwise returns False and
\* leaves the directory as it is; no other step changes the directory.
C27_SavedIffValid ==
    [][/\ (pc = "done" /\ pc' = "exit") =>
              IF result.status = "valid"
              THEN /\ returned' = "True"
                   /\ result \in {Classify(puzzle, trip_vars, m) : m \in {model}}
                   /\ \E f \in files' \ files :
                          /\ f.content = puzzle
                          /\ files' = files \cup {f}
                          /\ \A g \in files : g.name # f.name
              ELSE /\ returned' = "False"
                   /\ files' = files
       /\ (files' # files) => (pc = "done" /\ result.status = "valid")]_vars

C27_Witness ==
    /\ pc = "exit"
    /\ returned = "True"
    /\ \E f, g \in files : f # g /\ f.content = puzzle /\ g.content = OldPuzzle

\* C28: the site is generated only after the creator step has ended
\* normally, and when that step saved the puzzle, the puzzle is among the
\* puzzles the site generator loads.
C28_SavedPuzzleGetsPage ==
    [][(pc' = "site" /\ pc # "site") =>
           /\ pc = "exit"
           /\ (returned = "True") => \E k \in 1..Len(site') : site'[k].puzzle = puzzle]_vars

====
